---- MODULE Spec2Model ----
(***************************************************************************)
(* Remote Volume: the WebSocket server of main.js and the platform volume  *)
(* API of volumeController.js.                                             *)
(*                                                                         *)
(* Every `await` of a volumeController call is one step of the task that   *)
(* makes it: the subprocess reads or writes the operating system's mixer   *)
(* at that step.  Code between two awaits runs in one event-loop turn and  *)
(* is part of the step that ends the earlier await.  The commands are      *)
(* taken to do what they name on linux and darwin (read or write the       *)
(* mixer, or fail); the key-press emulation of the win32 commands is not   *)
(* modelled.                                                               *)
(***************************************************************************)
EXTENDS Integers, Sequences, FiniteSets, TLC

(* ------------------------------ bounds -------------------------------- *)
MaxEvents == 3
PollEvents == 4
FanEvents == 4
MaxDelta == 12
ClampEvents == 3
RaceEvents == 4
RaceVolume == 50
SnapEvents == 4
MaxPollLog == 5
LiveEvents == 3
OrderFirst == 30
OrderSecond == 70

Clients == {1, 2}
\* the environment starts a connection, a message or a tick while fewer tasks are
\* awaiting the backend than there are clients
MaxInFlight == Cardinality(Clients)
InitVolumes == {95}
KnobVolumes == {60}
SetValues == {150}
Deltas == {10}
Platforms == {"linux", "sunos"}
ClampVolumes == {0, 50, 100}

(* --------------------------- program constants ------------------------ *)
VolumeFloor == 0
VolumeCeil == 100
ExecFailVolume == 0

VARIABLES
  platform,        \* os.platform()
  pollingEnabled,  \* store.get('pollingEnabled')
  app,             \* "loading" | "running" | "quit"
  wss,             \* "null" | "open" | "closed"
  pollingTimer,    \* "null" | "set"
  lastVolume,      \* <<>> for null, <<v>> for v
  lastMute,        \* <<>> for null, <<m>> for m
  bvol, bmute,     \* the operating system's mixer
  readyState,      \* per client: "NONE" | "OPEN" | "CLOSING" | "CLOSED"
  wssClients,      \* wss.clients, in insertion order
  sent,            \* per client: the messages the server sent to it
  tasks,           \* the async functions awaiting a backend call
  nEvents,         \* events of the environment so far (bounded by MaxEvents)
  bver,            \* history: number of writes made to the mixer
  bsrc,            \* history: who wrote the mixer last: "init" | "request" | "knob"
  held,            \* history: the (volume, mute) pairs the mixer has held
  pollLog,         \* history: the states poll ticks asked to broadcast
  toggleRun        \* history: the latest uninterrupted toggleMute writes

vars == <<platform, pollingEnabled, app, wss, pollingTimer, lastVolume, lastMute,
          bvol, bmute, readyState, wssClients, sent, tasks,
          nEvents, bver, bsrc, held, pollLog, toggleRun>>

config == <<platform, pollingEnabled>>
server == <<app, wss, pollingTimer>>
snapshot == <<lastVolume, lastMute>>
mixer == <<bvol, bmute, bver, bsrc, held>>
conns == <<readyState, wssClients>>
history == <<pollLog, toggleRun>>

(* ------------------------------ helpers ------------------------------- *)
MathMin(a, b) == IF a < b THEN a ELSE b
MathMax(a, b) == IF a > b THEN a ELSE b

Null == <<>>
Some(x) == <<x>>

Supported == {"linux", "darwin", "win32"}

UnsupportedError == "Unsupported platform"
UnknownActionError == "Unknown action"
SyntaxErrorMessage == "Unexpected token"
TypeErrorMessage == "Cannot destructure property"

DefaultDevice == "Master"

(* ----------------------- volumeController.js -------------------------- *)
\* Faulty variant: setVolume clamps at the top only
clampVolTop(volume) == MathMin(VolumeCeil, volume)

\* Faulty variant: setVolume passes the volume on as it is
clampVolNone(volume) == volume

\* Math.max(0, Math.min(100, volume))
clampVol(volume) == MathMax(VolumeFloor, MathMin(VolumeCeil, volume))

\* the subprocess read of the mixer volume; 0 when the command fails
getVolumeLinux(ok) == IF ok THEN bvol ELSE ExecFailVolume
getVolumeMac(ok) == IF ok THEN bvol ELSE ExecFailVolume
\* the subprocess read of the mute switch; false when the command fails
getMutedLinux(ok) == IF ok THEN bmute ELSE FALSE
getMutedMac(ok) == IF ok THEN bmute ELSE FALSE
\* the subprocess write of the volume; nothing when the command fails
setVolumeLinux(volume, ok) == IF ok THEN volume ELSE bvol
setVolumeMac(volume, ok) == IF ok THEN volume ELSE bvol
setMutedLinux(muted, ok) == IF ok THEN muted ELSE bmute
setMutedMac(muted, ok) == IF ok THEN muted ELSE bmute
getOutputDeviceLinux(ok) == IF ok THEN "Master" ELSE DefaultDevice

\* the default branch of every switch (platform): throw new Error(...)
Throws == platform \notin Supported

getVolume(ok) == IF platform = "darwin" THEN getVolumeMac(ok) ELSE getVolumeLinux(ok)
getMuted(ok) == IF platform = "darwin" THEN getMutedMac(ok) ELSE getMutedLinux(ok)
setVolume(vol, ok) == IF platform = "darwin" THEN setVolumeMac(vol, ok) ELSE setVolumeLinux(vol, ok)
setMuted(muted, ok) == IF platform = "darwin" THEN setMutedMac(muted, ok) ELSE setMutedLinux(muted, ok)
getOutputDevice(ok) == getOutputDeviceLinux(ok)

(* ------------------------------ tasks --------------------------------- *)
\* the tasks in flight are a set of records; dup tells apart tasks that are at the
\* same place with the same values
Put(ts, r) ==
  LET n == CHOOSE i \in 1..(Cardinality(ts) + 1) :
             /\ [r EXCEPT !.dup = i] \notin ts
             /\ \A j \in 1..(i - 1) : [r EXCEPT !.dup = j] \in ts
  IN ts \cup {[r EXCEPT !.dup = n]}

NewTask(kind, pc, ws, src, action, value) ==
  [dup |-> 1, kind |-> kind, pc |-> pc, ws |-> ws, src |-> src,
   action |-> action, value |-> value, volume |-> 0, muted |-> FALSE,
   vol |-> 0, mut |-> FALSE, ver |-> bver, ok |-> TRUE, qvol |-> 0, qmute |-> FALSE]

\* an event of the environment: a connection, a message, a tick, a failing command, ...
Event == nEvents' = nEvents + 1
\* an exec may fail: one more event of the environment
CountFail(ok) == nEvents' = IF ok THEN nEvents ELSE nEvents + 1

(* ------------------------------ messages ------------------------------ *)
\* JSON.stringify({ volume, muted, device }); the other fields are history: the request
\* or tick behind the message, whether every command it rests on worked (ok), whether
\* the mixer was written since the task's reference point (clean), and the mixer's
\* values at the moments the task read them (qvol, qmute)
StateMsg(t, device, ok) ==
  [type |-> "state", volume |-> t.volume, muted |-> t.muted, device |-> device,
   error |-> "", src |-> t.src, action |-> t.action, value |-> t.value,
   ok |-> t.ok /\ ok, clean |-> t.ok /\ ok /\ t.ver = bver,
   qvol |-> t.qvol, qmute |-> t.qmute]

ErrorMsg(text) ==
  [type |-> "error", volume |-> 0, muted |-> FALSE, device |-> "",
   error |-> text, src |-> "reply", action |-> "", value |-> 0,
   ok |-> TRUE, clean |-> TRUE, qvol |-> 0, qmute |-> FALSE]

\* ws.send(data): delivered on an OPEN socket, dropped otherwise (ws 8)
wsSend(s, c, msg) ==
  IF readyState[c] = "OPEN" THEN [s EXCEPT ![c] = Append(@, msg)] ELSE s

\* Faulty variant: the fan-out stops at the first client that is not OPEN
RECURSIVE forEachClientAbort(_, _, _)
forEachClientAbort(s, cs, msg) ==
  IF cs = <<>> \/ readyState[Head(cs)] # "OPEN" THEN s
  ELSE forEachClientAbort(wsSend(s, Head(cs), msg), Tail(cs), msg)

\* wss.clients.forEach(client => { if (client.readyState === OPEN) client.send(state) })
RECURSIVE forEachClient(_, _, _)
forEachClient(s, cs, msg) ==
  IF cs = <<>> THEN s
  ELSE forEachClient(IF readyState[Head(cs)] = "OPEN" THEN wsSend(s, Head(cs), msg) ELSE s,
                     Tail(cs), msg)

(* ------------------------------ main.js ------------------------------- *)
\* sendState(ws) up to its first await
sendState(ts, c, src) ==
  IF Throws THEN ts
  ELSE Put(ts, NewTask("sendState", "getVolume", c, src, "", 0))

\* broadcastState() up to its first await
\* (history: the request behind it, the volume that request read, whether its
\* commands worked, and the number of mixer writes when it was called)
broadcastState(ts, src, action, value, okc, cur) ==
  IF wss = "null" \/ Throws THEN ts
  ELSE Put(ts, [NewTask("broadcast", "getVolume", 0, src, action, value)
                 EXCEPT !.ok = okc, !.ver = bver', !.vol = cur])

Init ==
  /\ platform \in Platforms
  /\ pollingEnabled \in BOOLEAN
  /\ app = "loading"
  /\ wss = "null"
  /\ pollingTimer = "null"
  /\ lastVolume = Null
  /\ lastMute = Null
  /\ bvol \in InitVolumes
  /\ bmute \in BOOLEAN
  /\ readyState = [c \in Clients |-> "NONE"]
  /\ wssClients = <<>>
  /\ sent = [c \in Clients |-> <<>>]
  /\ tasks = {}
  /\ nEvents = 0
  /\ bver = 0
  /\ bsrc = "init"
  /\ held = {<<bvol, bmute>>}
  /\ pollLog = <<>>
  /\ toggleRun = [n |-> 0, orig |-> FALSE, mid |-> FALSE, ver |-> 0]

\* Faulty variant: startPolling does not look at the setting
startPollingAlways(timer) == "set"

\* startPolling(): if (enabled) pollingTimer = setInterval(...)
startPolling(timer) == IF pollingEnabled THEN "set" ELSE timer

\* stopPolling(): if (pollingTimer) { clearInterval(pollingTimer); pollingTimer = null }
stopPolling(timer) == IF timer # "null" THEN "null" ELSE timer

\* app.whenReady().then: startWebSocketServer(); startPolling()
WhenReady ==
  /\ app = "loading"
  /\ app' = "running"
  /\ wss' = "open"
  /\ pollingTimer' = startPolling(pollingTimer)
  /\ UNCHANGED <<config, snapshot, mixer, conns, sent, tasks, nEvents, history>>

\* app.on('before-quit'): stopPolling(); wss.close()
BeforeQuit ==
  /\ app = "running"
  /\ Event
  /\ app' = "quit"
  /\ pollingTimer' = stopPolling(pollingTimer)
  /\ wss' = IF wss # "null" THEN "closed" ELSE wss
  /\ UNCHANGED <<config, snapshot, mixer, conns, sent, tasks, history>>

\* Faulty variant: the connection handler forgets the initial push
onConnectionPushNone(ts, c) == ts

\* Send current state on connection: sendState(ws)
onConnectionPush(ts, c) == sendState(ts, c, "connect")

\* wss.on('connection')
OnConnection(c) ==
  /\ wss = "open"
  /\ readyState[c] = "NONE"
  /\ \A d \in Clients : d < c => readyState[d] # "NONE"
  /\ Cardinality(tasks) < MaxInFlight
  /\ Event
  /\ readyState' = [readyState EXCEPT ![c] = "OPEN"]
  /\ wssClients' = Append(wssClients, c)
  /\ tasks' = onConnectionPush(tasks, c)
  /\ UNCHANGED <<config, server, snapshot, mixer, sent, history>>

\* the peer closes or the connection drops: the socket leaves OPEN
BeginClose(c) ==
  /\ readyState[c] = "OPEN"
  /\ Event
  /\ readyState' = [readyState EXCEPT ![c] = "CLOSING"]
  /\ UNCHANGED <<config, server, snapshot, mixer, wssClients, sent, tasks, history>>

\* Faulty variant: a closing socket takes every client out of the set
removeClientAll(cs, c) == <<>>

\* the ws library takes the closed socket out of wss.clients
removeClient(cs, c) == SelectSeq(cs, LAMBDA x : x # c)

\* ws.on('close'): the socket is CLOSED and leaves wss.clients
OnClose(c) ==
  /\ readyState[c] = "CLOSING"
  /\ readyState' = [readyState EXCEPT ![c] = "CLOSED"]
  /\ wssClients' = removeClient(wssClients, c)
  /\ UNCHANGED <<config, server, snapshot, mixer, sent, tasks, nEvents, history>>

\* the user turns the knob or presses the mute key
ExternalChange ==
  /\ Event
  /\ \/ \E v \in KnobVolumes : v # bvol /\ bvol' = v /\ bmute' = bmute
     \/ bmute' = ~bmute /\ bvol' = bvol
  /\ bver' = bver + 1
  /\ bsrc' = "knob"
  /\ held' = held \cup {<<bvol', bmute'>>}
  /\ UNCHANGED <<config, server, snapshot, conns, sent, tasks, history>>

(* -------------------- ws.on('message') and handleMessage -------------- *)
VolumeActions == {"setVolume"}
DeltaActions == {"increaseVolume", "decreaseVolume"}
PlainActions == {"getState", "mute", "toggleMute", "bogus"}
RecognizedActions ==
  {"setVolume", "getState", "increaseVolume", "decreaseVolume", "mute", "unmute",
   "toggleMute", "isMuted"}

RawMessages ==
  {[text |-> x, action |-> "", value |-> 0] : x \in {"garbage"}}
  \cup {[text |-> "object", action |-> a, value |-> v] : a \in VolumeActions, v \in SetValues}
  \cup {[text |-> "object", action |-> a, value |-> v] : a \in DeltaActions, v \in Deltas}
  \cup {[text |-> "object", action |-> a, value |-> 0] : a \in PlainActions}

\* JSON.parse(message) and the destructuring of handleMessage: the error thrown, or ""
ParseError(raw) ==
  IF raw.text = "garbage" THEN SyntaxErrorMessage
  ELSE IF raw.text = "null" THEN TypeErrorMessage
  ELSE ""

\* Math.min(100, currentVol + value)
increaseTarget(currentVol, value) == MathMin(VolumeCeil, currentVol + value)
\* Faulty variant: decreaseVolume adds the delta
decreaseTargetPlus(vol, value) == MathMax(VolumeFloor, vol + value)

\* Math.max(0, vol - value)
decreaseTarget(vol, value) == MathMax(VolumeFloor, vol - value)
\* Faulty variant: toggleMute always mutes
toggleTargetMute(isMuted) == TRUE

\* !isMuted
toggleTarget(isMuted) == ~isMuted

\* Faulty variant: error replies go to every client
replyToAll(c) == Clients

\* the clients the catch block of ws.on('message') and the default case reply to
replyTo(c) == {c}

Reply(c, text) ==
  sent' = [d \in Clients |-> IF d \in replyTo(c) THEN wsSend(sent, d, ErrorMsg(text))[d]
                                                  ELSE sent[d]]

\* Faulty variant: every mutating request ends in the setVolume call
HandlerStartAsVolume(c, t) ==
  IF Throws THEN Reply(c, UnsupportedError) /\ UNCHANGED tasks
  ELSE tasks' = Put(tasks, [t EXCEPT !.pc = "setVolume"]) /\ UNCHANGED sent

\* Faulty variant: the message callback has no catch block
HandlerStartNoCatch(c, t) ==
  IF Throws THEN UNCHANGED <<sent, tasks>>
  ELSE tasks' = Put(tasks, t) /\ UNCHANGED sent

\* a handler whose first volumeController call throws ends in the catch block
HandlerStart(c, t) ==
  IF Throws THEN Reply(c, UnsupportedError) /\ UNCHANGED tasks
  ELSE tasks' = Put(tasks, t) /\ UNCHANGED sent

\* Faulty variant: getState answers with a broadcast to every client
getStateCaseBroadcast(ts, c) == broadcastState(ts, "request", "getState", 0, TRUE, 0)

\* case 'getState', case 'isMuted': sendState(ws)
getStateCase(ts, c) == sendState(ts, c, "request")

\* Faulty variant: the switch has no default case
defaultCaseSilent(c) == UNCHANGED sent

\* default: ws.send({ error: 'Unknown action' })
defaultCase(c) == Reply(c, UnknownActionError)

OnMessage(c, raw) ==
  /\ readyState[c] = "OPEN"
  /\ Event
  /\ Cardinality(tasks) < MaxInFlight
  /\ UNCHANGED <<config, server, snapshot, mixer, conns, history>>
  /\ LET h == NewTask("handler", "", c, "request", raw.action, raw.value) IN
     \/ /\ ParseError(raw) # ""
        /\ Reply(c, ParseError(raw))
        /\ UNCHANGED tasks
     \/ /\ ParseError(raw) = "" /\ raw.action = "setVolume"
        /\ HandlerStart(c, [h EXCEPT !.pc = "setVolume", !.vol = clampVol(raw.value)])
     \/ /\ ParseError(raw) = "" /\ raw.action \in {"getState", "isMuted"}
        /\ tasks' = getStateCase(tasks, c)
        /\ UNCHANGED sent
     \/ /\ ParseError(raw) = "" /\ raw.action \in {"increaseVolume", "decreaseVolume"}
        /\ HandlerStart(c, [h EXCEPT !.pc = "getVolume"])
     \/ /\ ParseError(raw) = "" /\ raw.action \in {"mute", "unmute"}
        /\ HandlerStart(c, [h EXCEPT !.pc = "setMuted", !.mut = (raw.action = "mute")])
     \/ /\ ParseError(raw) = "" /\ raw.action = "toggleMute"
        /\ HandlerStart(c, [h EXCEPT !.pc = "getMuted"])
     \/ /\ ParseError(raw) = "" /\ raw.action \notin RecognizedActions
        /\ defaultCase(c)
        /\ UNCHANGED tasks

\* increaseVolume / decreaseVolume: the getVolume await returns, setVolume is called
HandlerGetVolume(t, ok) ==
  /\ t \in tasks /\ t.kind = "handler" /\ t.pc = "getVolume"
  /\ CountFail(ok)
  /\ LET cur == getVolume(ok)
         target == IF t.action = "increaseVolume" THEN increaseTarget(cur, t.value)
                   ELSE decreaseTarget(cur, t.value)
     IN tasks' = Put(tasks \ {t},
                     [t EXCEPT !.pc = "setVolume", !.volume = cur, !.vol = clampVol(target),
                               !.ver = bver, !.ok = ok, !.qvol = bvol])
  /\ UNCHANGED <<config, server, snapshot, mixer, conns, sent, history>>

\* the setVolume await returns; broadcastState()
HandlerSetVolume(t, ok) ==
  /\ t \in tasks /\ t.kind = "handler" /\ t.pc = "setVolume"
  /\ CountFail(ok)
  /\ bvol' = setVolume(t.vol, ok)
  /\ bver' = IF ok THEN bver + 1 ELSE bver
  /\ bsrc' = IF ok THEN "request" ELSE bsrc
  /\ held' = held \cup {<<bvol', bmute>>}
  /\ tasks' = broadcastState(tasks \ {t}, "mutation", t.action, t.value, t.ok /\ ok, t.volume)
  /\ UNCHANGED <<config, server, snapshot, bmute, conns, sent, history>>

\* toggleMute: the getMuted await returns, setMuted(!isMuted) is called
HandlerGetMuted(t, ok) ==
  /\ t \in tasks /\ t.kind = "handler" /\ t.pc = "getMuted"
  /\ CountFail(ok)
  /\ LET isMuted == getMuted(ok) IN
     tasks' = Put(tasks \ {t},
                  [t EXCEPT !.pc = "setMuted", !.muted = isMuted, !.mut = toggleTarget(isMuted),
                            !.ver = bver, !.ok = ok, !.qmute = bmute])
  /\ UNCHANGED <<config, server, snapshot, mixer, conns, sent, history>>

\* history: a toggleMute whose read and write both worked with no write in between
ToggleRunAfter(t, ok) ==
  IF t.action = "toggleMute" /\ t.ok /\ ok /\ t.ver = bver
  THEN IF toggleRun.n >= 1 /\ toggleRun.ver = t.ver
       THEN [n |-> 2, orig |-> toggleRun.mid, mid |-> t.muted, ver |-> bver + 1]
       ELSE [n |-> 1, orig |-> FALSE, mid |-> t.muted, ver |-> bver + 1]
  ELSE toggleRun

\* the setMuted await returns; broadcastState()
HandlerSetMuted(t, ok) ==
  /\ t \in tasks /\ t.kind = "handler" /\ t.pc = "setMuted"
  /\ CountFail(ok)
  /\ bmute' = setMuted(t.mut, ok)
  /\ bver' = IF ok THEN bver + 1 ELSE bver
  /\ bsrc' = IF ok THEN "request" ELSE bsrc
  /\ held' = held \cup {<<bvol, bmute'>>}
  /\ toggleRun' = ToggleRunAfter(t, ok)
  /\ tasks' = broadcastState(tasks \ {t}, "mutation", t.action, t.value, t.ok /\ ok, 0)
  /\ UNCHANGED <<config, server, snapshot, bvol, conns, sent, pollLog>>

(* ---------------------- sendState and broadcastState ------------------ *)
\* const volume = await volumeController.getVolume()
ReadVolume(t, ok) ==
  /\ t \in tasks /\ t.kind \in {"sendState", "broadcast"} /\ t.pc = "getVolume"
  /\ CountFail(ok)
  /\ tasks' = Put(tasks \ {t},
                  [t EXCEPT !.pc = "getMuted", !.volume = getVolume(ok), !.qvol = bvol,
                            !.ok = t.ok /\ ok,
                            !.ver = IF t.kind = "sendState" THEN bver ELSE t.ver])
  /\ UNCHANGED <<config, server, snapshot, mixer, conns, sent, history>>

\* const muted = await volumeController.getMuted()
ReadMuted(t, ok) ==
  /\ t \in tasks /\ t.kind \in {"sendState", "broadcast"} /\ t.pc = "getMuted"
  /\ CountFail(ok)
  /\ tasks' = Put(tasks \ {t},
                  [t EXCEPT !.pc = "getOutputDevice", !.muted = getMuted(ok), !.qmute = bmute,
                            !.ok = t.ok /\ ok])
  /\ UNCHANGED <<config, server, snapshot, mixer, conns, sent, history>>

\* sendState: the getOutputDevice await returns; ws.send(state)
SendStateSend(t, ok) ==
  /\ t \in tasks /\ t.kind = "sendState" /\ t.pc = "getOutputDevice"
  /\ CountFail(ok)
  /\ sent' = wsSend(sent, t.ws, StateMsg(t, getOutputDevice(ok), ok))
  /\ tasks' = tasks \ {t}
  /\ UNCHANGED <<config, server, snapshot, mixer, conns, history>>

\* broadcastState: the getOutputDevice await returns; wss.clients.forEach(...)
BroadcastSend(t, ok) ==
  /\ t \in tasks /\ t.kind = "broadcast" /\ t.pc = "getOutputDevice"
  /\ CountFail(ok)
  /\ sent' = forEachClient(sent, wssClients, StateMsg(t, getOutputDevice(ok), ok))
  /\ tasks' = tasks \ {t}
  /\ UNCHANGED <<config, server, snapshot, mixer, conns, history>>

(* ------------------------------ polling ------------------------------- *)
\* Faulty variant: every tick broadcasts
pollChangedAlways(volume, muted) == TRUE

\* volume !== lastVolume || muted !== lastMute
pollChanged(volume, muted) == Some(volume) # lastVolume \/ Some(muted) # lastMute

\* the interval fires: the callback runs up to its first await
TimerFires ==
  /\ pollingTimer = "set"
  /\ Cardinality(tasks) < MaxInFlight
  /\ tasks' = IF Throws THEN tasks
              ELSE Put(tasks, NewTask("tick", "getVolume", 0, "poll", "poll", 0))
  /\ UNCHANGED <<config, server, snapshot, mixer, conns, sent, history>>

\* a tick that counts as an event of the environment
PollTick == Event /\ TimerFires

\* history: the log keeps the first MaxPollLog comparisons
Logged(log, e) == IF Len(log) < MaxPollLog THEN Append(log, e) ELSE log

\* const volume = await volumeController.getVolume()
TickGetVolume(t, ok) ==
  /\ t \in tasks /\ t.kind = "tick" /\ t.pc = "getVolume"
  /\ CountFail(ok)
  /\ tasks' = Put(tasks \ {t},
                  [t EXCEPT !.pc = "getMuted", !.volume = getVolume(ok), !.ver = bver, !.ok = ok])
  /\ UNCHANGED <<config, server, snapshot, mixer, conns, sent, history>>

\* the getMuted await returns; compare with the snapshot, update it and broadcastState()
TickGetMuted(t, ok) ==
  /\ t \in tasks /\ t.kind = "tick" /\ t.pc = "getMuted"
  /\ CountFail(ok)
  /\ LET muted == getMuted(ok) IN
     /\ UNCHANGED <<bver, bsrc, held>>
     /\ IF pollChanged(t.volume, muted)
        THEN /\ lastVolume' = Some(t.volume)
             /\ lastMute' = Some(muted)
             /\ tasks' = broadcastState(tasks \ {t}, "poll", "poll", 0, t.ok /\ ok, 0)
        ELSE /\ tasks' = tasks \ {t}
             /\ UNCHANGED snapshot
     /\ pollLog' = Logged(pollLog,
          [volume |-> t.volume, muted |-> muted, lastVolume |-> lastVolume,
           lastMute |-> lastMute, from |-> t.ver, to |-> bver, ok |-> t.ok /\ ok,
           broadcasts |-> Cardinality(tasks') - Cardinality(tasks \ {t})])
  /\ UNCHANGED <<config, server, bvol, bmute, conns, sent, toggleRun>>

(* --------------------------- specification ---------------------------- *)
\* a failing command is one more event of the environment
MayFail(ok, limit) == ok \/ nEvents < limit

Room == nEvents < MaxEvents

Next ==
  \/ WhenReady
  \/ Room /\ BeforeQuit
  \/ \E c \in Clients : Room /\ OnConnection(c)
  \/ \E c \in Clients : Room /\ BeginClose(c)
  \/ \E c \in Clients : OnClose(c)
  \/ \E c \in Clients : \E raw \in RawMessages : Room /\ OnMessage(c, raw)
  \/ Room /\ ExternalChange
  \/ Room /\ PollTick
  \/ \E t \in tasks : \E ok \in BOOLEAN : MayFail(ok, MaxEvents) /\ HandlerGetVolume(t, ok)
  \/ \E t \in tasks : \E ok \in BOOLEAN : MayFail(ok, MaxEvents) /\ HandlerSetVolume(t, ok)
  \/ \E t \in tasks : \E ok \in BOOLEAN : MayFail(ok, MaxEvents) /\ HandlerGetMuted(t, ok)
  \/ \E t \in tasks : \E ok \in BOOLEAN : MayFail(ok, MaxEvents) /\ HandlerSetMuted(t, ok)
  \/ \E t \in tasks : \E ok \in BOOLEAN : MayFail(ok, MaxEvents) /\ ReadVolume(t, ok)
  \/ \E t \in tasks : \E ok \in BOOLEAN : MayFail(ok, MaxEvents) /\ ReadMuted(t, ok)
  \/ \E t \in tasks : \E ok \in BOOLEAN : MayFail(ok, MaxEvents) /\ SendStateSend(t, ok)
  \/ \E t \in tasks : \E ok \in BOOLEAN : MayFail(ok, MaxEvents) /\ BroadcastSend(t, ok)
  \/ \E t \in tasks : \E ok \in BOOLEAN : MayFail(ok, MaxEvents) /\ TickGetVolume(t, ok)
  \/ \E t \in tasks : \E ok \in BOOLEAN : MayFail(ok, MaxEvents) /\ TickGetMuted(t, ok)

Spec == Init /\ [][Next]_vars

(* SpecVol: one client on linux sends one volume request, drawn from the whole   *)
(* range of values, after it got its initial state; every command works.         *)
SetVolumeInputs == -50..150
DeltaInputs == 0..MaxDelta
VolMessages ==
  {[text |-> "object", action |-> "setVolume", value |-> v] : v \in SetVolumeInputs}
  \cup {[text |-> "object", action |-> a, value |-> d] : a \in DeltaActions, d \in DeltaInputs}

InitVol ==
  /\ platform = "linux"
  /\ pollingEnabled = FALSE
  /\ app = "loading"
  /\ wss = "null"
  /\ pollingTimer = "null"
  /\ lastVolume = Null
  /\ lastMute = Null
  /\ bvol \in VolumeFloor..VolumeCeil
  /\ bmute = FALSE
  /\ readyState = [c \in Clients |-> "NONE"]
  /\ wssClients = <<>>
  /\ sent = [c \in Clients |-> <<>>]
  /\ tasks = {}
  /\ nEvents = 0
  /\ bver = 0
  /\ bsrc = "init"
  /\ held = {<<bvol, bmute>>}
  /\ pollLog = <<>>
  /\ toggleRun = [n |-> 0, orig |-> FALSE, mid |-> FALSE, ver |-> 0]

NextVol ==
  \/ WhenReady
  \/ OnConnection(1)
  \/ \E raw \in VolMessages : tasks = {} /\ Len(sent[1]) = 1 /\ OnMessage(1, raw)
  \/ \E t \in tasks : HandlerGetVolume(t, TRUE)
  \/ \E t \in tasks : HandlerSetVolume(t, TRUE)
  \/ \E t \in tasks : ReadVolume(t, TRUE)
  \/ \E t \in tasks : ReadMuted(t, TRUE)
  \/ \E t \in tasks : SendStateSend(t, TRUE)
  \/ \E t \in tasks : BroadcastSend(t, TRUE)

SpecVol == InitVol /\ [][NextVol]_vars

(* SpecPoll: the poll loop alone, with the knob turned and commands failing.      *)
PollRoom == nEvents < PollEvents

NextPoll ==
  \/ WhenReady
  \/ PollRoom /\ PollTick
  \/ PollRoom /\ ExternalChange
  \/ \E t \in tasks : \E ok \in BOOLEAN : MayFail(ok, PollEvents) /\ TickGetVolume(t, ok)
  \/ \E t \in tasks : \E ok \in BOOLEAN : MayFail(ok, PollEvents) /\ TickGetMuted(t, ok)
  \/ \E t \in tasks : \E ok \in BOOLEAN : MayFail(ok, PollEvents) /\ ReadVolume(t, ok)
  \/ \E t \in tasks : \E ok \in BOOLEAN : MayFail(ok, PollEvents) /\ ReadMuted(t, ok)
  \/ \E t \in tasks : \E ok \in BOOLEAN : MayFail(ok, PollEvents) /\ BroadcastSend(t, ok)

SpecPoll == Init /\ [][NextPoll]_vars

(* SpecFan: clients connecting and leaving while mute and volume requests are     *)
(* handled and broadcast.                                                         *)
FanMessages ==
  {[text |-> "object", action |-> a, value |-> 0] : a \in {"mute", "unmute"}}
  \cup {[text |-> "object", action |-> "setVolume", value |-> v] : v \in SetValues}

FanRoom == nEvents < FanEvents

NextFan ==
  \/ WhenReady
  \/ \E c \in Clients : FanRoom /\ OnConnection(c)
  \/ \E c \in Clients : FanRoom /\ BeginClose(c)
  \/ \E c \in Clients : OnClose(c)
  \/ \E c \in Clients : \E raw \in FanMessages : FanRoom /\ OnMessage(c, raw)
  \/ \E t \in tasks : \E ok \in BOOLEAN : MayFail(ok, FanEvents) /\ HandlerSetVolume(t, ok)
  \/ \E t \in tasks : \E ok \in BOOLEAN : MayFail(ok, FanEvents) /\ HandlerSetMuted(t, ok)
  \/ \E t \in tasks : \E ok \in BOOLEAN : MayFail(ok, FanEvents) /\ ReadVolume(t, ok)
  \/ \E t \in tasks : \E ok \in BOOLEAN : MayFail(ok, FanEvents) /\ ReadMuted(t, ok)
  \/ \E t \in tasks : \E ok \in BOOLEAN : MayFail(ok, FanEvents) /\ SendStateSend(t, ok)
  \/ \E t \in tasks : \E ok \in BOOLEAN : MayFail(ok, FanEvents) /\ BroadcastSend(t, ok)

SpecFan == Init /\ [][NextFan]_vars

(* SpecClamp: one client on linux, polling on; volume requests with values on both *)
(* sides of 0..100 and deltas of both signs, with commands failing; the client     *)
(* makes one request.                                                             *)
ClampDeltas == (0 - MaxDelta)..MaxDelta
ClampMessages ==
  {[text |-> "object", action |-> "setVolume", value |-> v] : v \in SetVolumeInputs}
  \cup {[text |-> "object", action |-> a, value |-> d] : a \in DeltaActions, d \in ClampDeltas}

InitClamp ==
  /\ platform = "linux"
  /\ pollingEnabled = TRUE
  /\ app = "loading"
  /\ wss = "null"
  /\ pollingTimer = "null"
  /\ lastVolume = Null
  /\ lastMute = Null
  /\ bvol \in ClampVolumes
  /\ bmute = FALSE
  /\ readyState = [c \in Clients |-> "NONE"]
  /\ wssClients = <<>>
  /\ sent = [c \in Clients |-> <<>>]
  /\ tasks = {}
  /\ nEvents = 0
  /\ bver = 0
  /\ bsrc = "init"
  /\ held = {<<bvol, bmute>>}
  /\ pollLog = <<>>
  /\ toggleRun = [n |-> 0, orig |-> FALSE, mid |-> FALSE, ver |-> 0]

ClampRoom == nEvents < ClampEvents
\* no mutating request was made so far
FirstRequest ==
  /\ \A t \in tasks : t.src \notin {"request", "mutation"}
  /\ \A c \in Clients : \A i \in 1..Len(sent[c]) : sent[c][i].src # "mutation"

NextClamp ==
  \/ WhenReady
  \/ ClampRoom /\ OnConnection(1)
  \/ \E raw \in ClampMessages : ClampRoom /\ FirstRequest /\ OnMessage(1, raw)
  \/ ClampRoom /\ PollTick
  \/ \E t \in tasks : \E ok \in BOOLEAN : MayFail(ok, ClampEvents) /\ HandlerGetVolume(t, ok)
  \/ \E t \in tasks : \E ok \in BOOLEAN : MayFail(ok, ClampEvents) /\ HandlerSetVolume(t, ok)
  \/ \E t \in tasks : \E ok \in BOOLEAN : MayFail(ok, ClampEvents) /\ TickGetVolume(t, ok)
  \/ \E t \in tasks : \E ok \in BOOLEAN : MayFail(ok, ClampEvents) /\ TickGetMuted(t, ok)
  \/ \E t \in tasks : ReadVolume(t, TRUE)
  \/ \E t \in tasks : ReadMuted(t, TRUE)
  \/ \E t \in tasks : SendStateSend(t, TRUE)
  \/ \E t \in tasks : BroadcastSend(t, TRUE)

SpecClamp == InitClamp /\ [][NextClamp]_vars

(* SpecRace: clients on linux sending increaseVolume and toggleMute requests that  *)
(* may be in flight together; every command works, nothing else writes the mixer.  *)
RaceMessages ==
  {[text |-> "object", action |-> "increaseVolume", value |-> d] : d \in Deltas}
  \cup {[text |-> "object", action |-> "toggleMute", value |-> 0]}

InitRace ==
  /\ platform = "linux"
  /\ pollingEnabled = FALSE
  /\ app = "loading"
  /\ wss = "null"
  /\ pollingTimer = "null"
  /\ lastVolume = Null
  /\ lastMute = Null
  /\ bvol = RaceVolume
  /\ bmute = FALSE
  /\ readyState = [c \in Clients |-> "NONE"]
  /\ wssClients = <<>>
  /\ sent = [c \in Clients |-> <<>>]
  /\ tasks = {}
  /\ nEvents = 0
  /\ bver = 0
  /\ bsrc = "init"
  /\ held = {<<bvol, bmute>>}
  /\ pollLog = <<>>
  /\ toggleRun = [n |-> 0, orig |-> FALSE, mid |-> FALSE, ver |-> 0]

RaceRoom == nEvents < RaceEvents

NextRace ==
  \/ WhenReady
  \/ \E c \in Clients : RaceRoom /\ OnConnection(c)
  \/ \E c \in Clients : \E raw \in RaceMessages : RaceRoom /\ OnMessage(c, raw)
  \/ \E t \in tasks : HandlerGetVolume(t, TRUE)
  \/ \E t \in tasks : HandlerSetVolume(t, TRUE)
  \/ \E t \in tasks : HandlerGetMuted(t, TRUE)
  \/ \E t \in tasks : HandlerSetMuted(t, TRUE)
  \/ \E t \in tasks : ReadVolume(t, TRUE)
  \/ \E t \in tasks : ReadMuted(t, TRUE)
  \/ \E t \in tasks : SendStateSend(t, TRUE)
  \/ \E t \in tasks : BroadcastSend(t, TRUE)

SpecRace == InitRace /\ [][NextRace]_vars

(* SpecSnap: connections, mutating requests and poll ticks one after the other:    *)
(* each starts when nothing is awaiting the backend; every command works and       *)
(* nothing else writes the mixer.                                                  *)
SnapRoom == nEvents < SnapEvents /\ tasks = {}

NextSnap ==
  \/ WhenReady
  \/ \E c \in Clients : SnapRoom /\ OnConnection(c)
  \/ \E c \in Clients : \E raw \in FanMessages : SnapRoom /\ OnMessage(c, raw)
  \/ SnapRoom /\ PollTick
  \/ \E t \in tasks : HandlerSetVolume(t, TRUE)
  \/ \E t \in tasks : HandlerSetMuted(t, TRUE)
  \/ \E t \in tasks : TickGetVolume(t, TRUE)
  \/ \E t \in tasks : TickGetMuted(t, TRUE)
  \/ \E t \in tasks : ReadVolume(t, TRUE)
  \/ \E t \in tasks : ReadMuted(t, TRUE)
  \/ \E t \in tasks : SendStateSend(t, TRUE)
  \/ \E t \in tasks : BroadcastSend(t, TRUE)

SpecSnap == Init /\ [][NextSnap]_vars

(* SpecLive: the timer keeps firing while clients connect, send mutating requests  *)
(* and the knob is turned a bounded number of times, each of these when nothing    *)
(* awaits the backend; every command works; the timer and every pending await are  *)
(* fair.                                                                           *)
LiveRoom == nEvents < LiveEvents /\ tasks = {}

LiveTick ==
  /\ tasks = {}
  /\ TimerFires
  /\ UNCHANGED nEvents

NextLive ==
  \/ WhenReady
  \/ \E c \in Clients : LiveRoom /\ OnConnection(c)
  \/ \E c \in Clients : \E raw \in FanMessages : LiveRoom /\ OnMessage(c, raw)
  \/ LiveRoom /\ ExternalChange
  \/ LiveTick
  \/ \E t \in tasks : HandlerSetVolume(t, TRUE)
  \/ \E t \in tasks : HandlerSetMuted(t, TRUE)
  \/ \E t \in tasks : TickGetVolume(t, TRUE)
  \/ \E t \in tasks : TickGetMuted(t, TRUE)
  \/ \E t \in tasks : ReadVolume(t, TRUE)
  \/ \E t \in tasks : ReadMuted(t, TRUE)
  \/ \E t \in tasks : SendStateSend(t, TRUE)
  \/ \E t \in tasks : BroadcastSend(t, TRUE)

LiveFairness ==
  /\ WF_vars(WhenReady)
  /\ WF_vars(LiveTick)
  /\ WF_vars(\E t \in tasks : HandlerSetVolume(t, TRUE))
  /\ WF_vars(\E t \in tasks : HandlerSetMuted(t, TRUE))
  /\ WF_vars(\E t \in tasks : TickGetVolume(t, TRUE))
  /\ WF_vars(\E t \in tasks : TickGetMuted(t, TRUE))
  /\ WF_vars(\E t \in tasks : ReadVolume(t, TRUE))
  /\ WF_vars(\E t \in tasks : ReadMuted(t, TRUE))
  /\ WF_vars(\E t \in tasks : SendStateSend(t, TRUE))
  /\ WF_vars(\E t \in tasks : BroadcastSend(t, TRUE))

SpecLive == Init /\ [][NextLive]_vars /\ LiveFairness

(* SpecOrder: client 1 on linux sends setVolume(OrderFirst) and then               *)
(* setVolume(OrderSecond); every command works, nothing else writes the mixer.     *)
\* a setVolume request with value v has arrived: its handler, its broadcast or the
\* message of its broadcast to client 1 is there
Arrived(v) ==
  \/ \E t \in tasks : t.kind \in {"handler", "broadcast"} /\ t.action = "setVolume" /\ t.value = v
  \/ \E i \in 1..Len(sent[1]) :
       sent[1][i].src = "mutation" /\ sent[1][i].action = "setVolume" /\ sent[1][i].value = v

SetVolumeMessage(v) == [text |-> "object", action |-> "setVolume", value |-> v]

NextOrder ==
  \/ WhenReady
  \/ \E c \in Clients : OnConnection(c)
  \/ ~Arrived(OrderFirst) /\ ~Arrived(OrderSecond) /\ OnMessage(1, SetVolumeMessage(OrderFirst))
  \/ Arrived(OrderFirst) /\ ~Arrived(OrderSecond) /\ OnMessage(1, SetVolumeMessage(OrderSecond))
  \/ \E t \in tasks : HandlerSetVolume(t, TRUE)
  \/ \E t \in tasks : ReadVolume(t, TRUE)
  \/ \E t \in tasks : ReadMuted(t, TRUE)
  \/ \E t \in tasks : SendStateSend(t, TRUE)
  \/ \E t \in tasks : BroadcastSend(t, TRUE)

SpecOrder == InitRace /\ [][NextOrder]_vars

(* ------------------------------- claims -------------------------------- *)
Indexes(c) == 1..Len(sent[c])
Moved(t) == t \in tasks /\ t \notin tasks'
Spawned == tasks' \ tasks

\* clamp(v, 0, 100), as the claims state it
ClampTo(v) == IF v < 0 THEN 0 ELSE IF v > 100 THEN 100 ELSE v

\* a broadcast task that a request started, whose commands all worked, with no write
\* to the mixer since that request wrote it
Settled(t) == t.kind = "broadcast" /\ t.src = "mutation" /\ t.ok /\ t.ver = bver

\* C1: when a setVolume request with value v has written the mixer (the command
\* working, no other write since), the mixer's volume is clamp(v, 0, 100), and so is
\* the volume in the broadcast that follows.
C1_SetVolume ==
  /\ \A t \in tasks : (Settled(t) /\ t.action = "setVolume") => bvol = ClampTo(t.value)
  /\ \A c \in Clients : \A i \in Indexes(c) :
       (sent[c][i].src = "mutation" /\ sent[c][i].action = "setVolume" /\ sent[c][i].clean)
       => sent[c][i].volume = ClampTo(sent[c][i].value)

C1_Witness ==
  \E c \in Clients : \E i \in Indexes(c) :
    /\ sent[c][i].src = "mutation" /\ sent[c][i].action = "setVolume" /\ sent[c][i].clean
    /\ sent[c][i].value < 0 /\ sent[c][i].volume = 0 /\ bvol = 0

\* C2: increaseVolume(d) and decreaseVolume(d), d >= 0, read the volume c from the
\* mixer (the value it holds at that moment, whatever lastVolume is) and leave the
\* mixer at min(100, c + d) and max(0, c - d).
C2_AdjustVolume ==
  /\ \A t \in tasks :
       (t.kind = "handler" /\ t.pc = "setVolume" /\ t.action \in DeltaActions /\ t.ok)
       => t.volume = t.qvol
  /\ \A t \in tasks :
       (Settled(t) /\ t.value >= 0 /\ t.vol \in 0..100)
       => /\ t.action = "increaseVolume" => bvol = MathMin(100, t.vol + t.value)
          /\ t.action = "decreaseVolume" => bvol = MathMax(0, t.vol - t.value)

C2_Witness ==
  \E t \in tasks :
    /\ Settled(t) /\ t.action = "increaseVolume"
    /\ t.vol = 95 /\ t.value = 10 /\ bvol = 100 /\ lastVolume # Some(t.vol)

\* C3: two toggleMute requests handled one after the other (each read and write
\* working, no other write to the mixer from the first read to the second write)
\* leave the mute switch as it was before the first.
C3_ToggleTwice ==
  (toggleRun.n = 2 /\ toggleRun.ver = bver) => bmute = toggleRun.orig

C3_Witness == toggleRun.n = 2 /\ toggleRun.ver = bver

\* C4: a connection gets one state message from its registration, never two; it holds
\* the values the mixer had when they were queried; an OPEN client on a supported
\* platform has it as soon as its sendState has run, with no tick or mutation.
ConnectPushes(c) == {i \in Indexes(c) : sent[c][i].src = "connect"}

C4_InitialPush ==
  \A c \in Clients :
    /\ Cardinality(ConnectPushes(c)) <= 1
    /\ \A i \in ConnectPushes(c) :
         /\ sent[c][i].type = "state"
         /\ sent[c][i].ok => sent[c][i].volume = sent[c][i].qvol /\ sent[c][i].muted = sent[c][i].qmute
    /\ ( /\ readyState[c] = "OPEN"
         /\ ~Throws
         /\ ~\E t \in tasks : t.kind = "sendState" /\ t.src = "connect" /\ t.ws = c )
       => Cardinality(ConnectPushes(c)) = 1

C4_Witness ==
  \E c \in Clients :
    /\ readyState[c] = "OPEN" /\ nEvents = 1 /\ pollLog = <<>> /\ bver = 0
    /\ Len(sent[c]) = 1 /\ sent[c][1].src = "connect"
    /\ sent[c][1].volume = bvol /\ sent[c][1].muted = bmute

\* C5: the fan-out of a broadcast sends its state message once to every client of
\* wss.clients that is OPEN at that moment, and to no other; clients that are CLOSING
\* or CLOSED are passed over and the clients after them still get the message.
C5_FanOut ==
  [][\A t \in tasks :
       (t.kind = "broadcast" /\ t.pc = "getOutputDevice" /\ Moved(t))
       => \A c \in Clients :
            IF readyState[c] = "OPEN" /\ \E k \in 1..Len(wssClients) : wssClients[k] = c
            THEN /\ Len(sent'[c]) = Len(sent[c]) + 1
                 /\ SubSeq(sent'[c], 1, Len(sent[c])) = sent[c]
                 /\ sent'[c][Len(sent'[c])].type = "state"
                 /\ sent'[c][Len(sent'[c])].src = t.src
                 /\ sent'[c][Len(sent'[c])].volume = t.volume
                 /\ sent'[c][Len(sent'[c])].muted = t.muted
            ELSE sent'[c] = sent[c]]_vars

C5_Witness ==
  /\ wssClients = <<1, 2>>
  /\ readyState[1] = "CLOSING" /\ readyState[2] = "OPEN"
  /\ \E i \in Indexes(2) : sent[2][i].src = "mutation" /\ sent[2][i].ok
  /\ \A i \in Indexes(1) : sent[1][i].src # "mutation"

\* C6: a poll tick calls broadcastState at most once, and not at all when the volume
\* and mute it read equal lastVolume and lastMute.
C6_PollBroadcasts ==
  \A i \in 1..Len(pollLog) :
    /\ pollLog[i].broadcasts <= 1
    /\ (Some(pollLog[i].volume) = pollLog[i].lastVolume /\ Some(pollLog[i].muted) = pollLog[i].lastMute)
       => pollLog[i].broadcasts = 0

C6_Witness ==
  \E i, j \in 1..Len(pollLog) :
    /\ pollLog[i].broadcasts = 1
    /\ pollLog[j].broadcasts = 0
    /\ Some(pollLog[j].volume) = pollLog[j].lastVolume

\* C7: no two poll ticks broadcast the same (volume, mute) while the mixer is not
\* written from the first read of the earlier one to the comparison of the later one
\* (every command of every tick up to the later one working), ticks that overlap
\* included.
C7_NoDoubleBroadcast ==
  \A i, j \in 1..Len(pollLog) :
    ~ ( /\ i < j
        /\ pollLog[i].broadcasts = 1 /\ pollLog[j].broadcasts = 1
        /\ \A k \in 1..j : pollLog[k].ok
        /\ pollLog[i].volume = pollLog[j].volume /\ pollLog[i].muted = pollLog[j].muted
        /\ pollLog[j].to = pollLog[i].from )

\* C8: a message with an unrecognized action sends {error: "Unknown action"} to its
\* sender and does nothing else: no task (so no broadcast) starts, no other client
\* gets a message, the mixer and the snapshot stay as they are.
C8_UnknownAction ==
  [][\A c \in Clients : \A raw \in RawMessages :
       (OnMessage(c, raw) /\ ParseError(raw) = "" /\ raw.action \notin RecognizedActions)
       => /\ sent'[c] = Append(sent[c], ErrorMsg("Unknown action"))
          /\ \A d \in Clients \ {c} : sent'[d] = sent[d]
          /\ tasks' = tasks
          /\ UNCHANGED <<mixer, snapshot, conns>>]_vars

C8_Witness ==
  \E c \in Clients : \E d \in Clients \ {c} :
    /\ readyState[d] = "OPEN" /\ readyState[c] = "OPEN"
    /\ \E i \in Indexes(c) : sent[c][i].error = "Unknown action"
    /\ \A i \in Indexes(d) : sent[d][i].type = "state"

\* C9: a message that does not parse sends {error: <message>} to its sender only; the
\* connection stays OPEN and registered and nothing else of the server changes, so a
\* later message on it is handled as on any connection.
C9_ParseError ==
  [][\A c \in Clients : \A raw \in RawMessages :
       (OnMessage(c, raw) /\ ParseError(raw) # "")
       => /\ sent'[c] = Append(sent[c], ErrorMsg(ParseError(raw)))
          /\ \A d \in Clients \ {c} : sent'[d] = sent[d]
          /\ readyState'[c] = "OPEN"
          /\ tasks' = tasks
          /\ UNCHANGED <<mixer, snapshot, conns, server>>]_vars

C9_Witness ==
  \E c \in Clients : \E i, j \in Indexes(c) :
    /\ i < j
    /\ sent[c][i].type = "error" /\ sent[c][i].error = SyntaxErrorMessage
    /\ sent[c][j].type = "state" /\ sent[c][j].src = "request"
    /\ readyState[c] = "OPEN"

\* C10: getState and isMuted start one sendState for the requesting client and
\* nothing else; that sendState never writes the mixer or the snapshot, starts no
\* broadcast, sends to no other client, and sends the requesting client one state
\* message holding the values the mixer had when it queried them.
C10_Reply ==
  \A c \in Clients : \A i \in Indexes(c) :
    sent[c][i].src = "request" =>
      /\ sent[c][i].type = "state"
      /\ sent[c][i].ok => sent[c][i].volume = sent[c][i].qvol /\ sent[c][i].muted = sent[c][i].qmute

C10_Frame ==
  /\ \A c \in Clients : \A raw \in RawMessages :
       (OnMessage(c, raw) /\ ParseError(raw) = "" /\ raw.action \in {"getState", "isMuted"})
       => /\ sent' = sent
          /\ UNCHANGED <<mixer, snapshot, conns>>
          /\ tasks \subseteq tasks'
          /\ \A u \in Spawned : u.kind = "sendState" /\ u.ws = c
          /\ Cardinality(Spawned) = IF Throws THEN 0 ELSE 1
  /\ \A t \in tasks :
       (t.kind = "sendState" /\ t.src = "request" /\ Moved(t))
       => /\ UNCHANGED <<mixer, snapshot, conns>>
          /\ \A u \in Spawned : u.kind = "sendState" /\ u.src = "request" /\ u.ws = t.ws
          /\ \A d \in Clients \ {t.ws} : sent'[d] = sent[d]
          /\ IF t.pc = "getOutputDevice" /\ readyState[t.ws] = "OPEN"
             THEN /\ Len(sent'[t.ws]) = Len(sent[t.ws]) + 1
                  /\ SubSeq(sent'[t.ws], 1, Len(sent[t.ws])) = sent[t.ws]
                  /\ sent'[t.ws][Len(sent'[t.ws])].src = "request"
                  /\ sent'[t.ws][Len(sent'[t.ws])].volume = t.volume
                  /\ sent'[t.ws][Len(sent'[t.ws])].muted = t.muted
             ELSE sent'[t.ws] = sent[t.ws]

HandlerFailed(t) == t.kind = "handler" /\ Moved(t) /\ nEvents' # nEvents
\* the last message sent to client c after the step
LastSent(c) == sent'[c][Len(sent'[c])]
GotError(c) == Len(sent'[c]) = Len(sent[c]) + 1 /\ LastSent(c).type = "error"

\* C11: when a volumeController call made for a request fails (the command failing on
\* a supported platform, or the platform unsupported), the requesting client, still
\* OPEN, gets an {error} reply in the step that ends the call.
C11_FailureReplied ==
  [][/\ \A t \in tasks :
          (HandlerFailed(t) /\ readyState[t.ws] = "OPEN") => GotError(t.ws)
     /\ \A c \in Clients : \A raw \in RawMessages :
          (OnMessage(c, raw) /\ Throws /\ raw.action \in RecognizedActions \ {"getState", "isMuted"})
          => GotError(c)]_vars

\* C12: when the write of a mutating request fails, or the read it rests on failed,
\* the request calls no broadcastState.
C12_NoBroadcastOnFailure ==
  [][\A t \in tasks :
       (/\ t.kind = "handler" /\ t.pc \in {"setVolume", "setMuted"} /\ Moved(t)
        /\ (~t.ok \/ nEvents' # nEvents))
       => ~\E u \in Spawned : u.kind = "broadcast"]_vars

\* C13: a getState or isMuted request, or the push on connection, whose query fails
\* (a command failing, or the platform unsupported) sends an {error} message to that
\* client, still OPEN.
C13_QueryFailureReplied ==
  [][/\ \A c \in Clients : \A raw \in RawMessages :
          (OnMessage(c, raw) /\ Throws /\ raw.action \in {"getState", "isMuted"}) => GotError(c)
     /\ \A c \in Clients : (OnConnection(c) /\ Throws) => GotError(c)
     /\ \A t \in tasks :
          (/\ t.kind = "sendState" /\ t.pc = "getOutputDevice" /\ Moved(t)
           /\ (~t.ok \/ nEvents' # nEvents) /\ readyState[t.ws] = "OPEN")
          => GotError(t.ws)]_vars

\* C14: a poll tick one of whose queries failed, coming after a tick that set the
\* snapshot, starts no broadcast (and so, by the code of the callback, leaves
\* lastVolume and lastMute as they were).
C14_FailedTickSkipped ==
  \A i \in 1..Len(pollLog) :
    (~pollLog[i].ok /\ pollLog[i].lastVolume # Null) => pollLog[i].broadcasts = 0

\* C15: the volume a handler hands to the platform function is in 0..100, whatever the
\* request's value or delta (negative deltas and values outside 0..100 included), and
\* so are the mixer's volume and the volume held in lastVolume.
C15_VolumeInRange ==
  /\ \A t \in tasks : (t.kind = "handler" /\ t.pc = "setVolume") => t.vol \in 0..100
  /\ bvol \in 0..100
  /\ lastVolume # Null => lastVolume[1] \in 0..100

C15_Witness ==
  /\ lastVolume # Null
  /\ \E t \in tasks :
       /\ t.kind = "handler" /\ t.pc = "setVolume" /\ t.action = "decreaseVolume"
       /\ t.value < 0 /\ t.volume - t.value > 100 /\ t.vol = 100

\* the requests with action a handled to the end: each one calls broadcastState once,
\* and client 1, the first to connect and OPEN ever after, gets every broadcast
Done(a) ==
  Cardinality({t \in tasks : t.kind = "broadcast" /\ t.action = a})
  + Cardinality({i \in Indexes(1) : sent[1][i].src = "mutation" /\ sent[1][i].action = a})
RaceDelta == CHOOSE d \in Deltas : TRUE

\* C16: the read and the write of an increaseVolume or toggleMute request are not
\* interleaved with another request's write: when no request is in flight, n
\* increaseVolume(d) requests from volume c have left min(100, c + n * d), and the mute
\* switch has turned once per toggleMute request.
C16_Serialized ==
  (\A t \in tasks : t.kind # "handler")
  => /\ bvol = MathMin(100, RaceVolume + Done("increaseVolume") * RaceDelta)
     /\ bmute = (Done("toggleMute") % 2 = 1)

\* C17: the poll loop is Stopped (pollingTimer null) or Running (set); it starts only
\* when the app becomes ready and only if pollingEnabled, and stops only on before-quit;
\* with pollingEnabled false it never runs, no tick happens and no message comes from
\* a poll; stopPolling on a Stopped loop changes nothing.
C17_TwoStates ==
  /\ pollingTimer \in {"null", "set"}
  /\ ~pollingEnabled =>
       /\ pollingTimer = "null"
       /\ pollLog = <<>>
       /\ \A t \in tasks : t.src # "poll"
       /\ \A c \in Clients : \A i \in Indexes(c) : sent[c][i].src # "poll"

C17_Moves ==
  /\ (pollingTimer = "null" /\ pollingTimer' = "set")
     => (app = "loading" /\ app' = "running" /\ pollingEnabled)
  /\ (pollingTimer = "set" /\ pollingTimer' = "null")
     => (app = "running" /\ app' = "quit")
  /\ (app = "running" /\ app' = "quit" /\ pollingTimer = "null")
     => UNCHANGED <<pollingTimer, snapshot, mixer, conns, sent, tasks>>

C17_PollLoop == []C17_TwoStates /\ [][C17_Moves]_vars

C17_Witness ==
  /\ pollingEnabled /\ app = "quit" /\ pollingTimer = "null"
  /\ pollLog # <<>>

Registered(cs, c) == \E k \in 1..Len(cs) : cs[k] = c

\* C18: a client whose connection dropped is out of wss.clients once closed and gets
\* no message from then on; the drop touches no other client: each stays OPEN and in
\* wss.clients, and every broadcast sent later reaches it.
C18_LiveSet ==
  \A c \in Clients :
    /\ readyState[c] = "CLOSED" => ~Registered(wssClients, c)
    /\ readyState[c] = "OPEN" => Registered(wssClients, c)

C18_Frame ==
  /\ \A c \in Clients : readyState[c] \in {"CLOSING", "CLOSED"} => sent'[c] = sent[c]
  /\ \A c \in Clients :
       (readyState[c] \in {"OPEN", "CLOSING"} /\ readyState'[c] # readyState[c])
       => /\ \A d \in Clients \ {c} :
               /\ readyState'[d] = readyState[d]
               /\ Registered(wssClients', d) <=> Registered(wssClients, d)
          /\ sent' = sent /\ tasks' = tasks
  /\ \A t \in tasks :
       (t.kind = "broadcast" /\ t.pc = "getOutputDevice" /\ Moved(t))
       => \A d \in Clients :
            readyState[d] = "OPEN"
            => /\ Len(sent'[d]) = Len(sent[d]) + 1
               /\ sent'[d][Len(sent'[d])].type = "state"
               /\ sent'[d][Len(sent'[d])].src = t.src

C18_DropIsolated == []C18_LiveSet /\ [][C18_Frame]_vars

C18_Witness ==
  /\ readyState[1] = "CLOSED" /\ readyState[2] = "OPEN" /\ wssClients = <<2>>
  /\ \E i \in Indexes(2) : sent[2][i].src = "mutation"
  /\ \A i \in Indexes(1) : sent[1][i].src # "mutation"

MutatingActions == RecognizedActions \ {"getState", "isMuted"}

\* C19: an error thrown while a message is handled, the state is pushed on connection
\* or a tick runs ends in the catch block of its function: the message's sender gets an
\* {error} reply, the push and the tick are skipped; the server, the timer and the
\* connections are as before, the app leaves "running" only by before-quit, and the
\* server of a running app is open to connections and messages.
C19_Accepting == app = "running" => wss = "open"

C19_Caught ==
  /\ \A c \in Clients : \A raw \in RawMessages :
       (OnMessage(c, raw) /\ (ParseError(raw) # "" \/ (Throws /\ raw.action \in MutatingActions)))
       => /\ GotError(c)
          /\ UNCHANGED <<server, conns, tasks>>
  /\ \A c \in Clients :
       (OnConnection(c) /\ Throws)
       => /\ readyState'[c] = "OPEN"
          /\ UNCHANGED <<server, sent, tasks>>
  /\ (PollTick /\ Throws) => UNCHANGED <<server, snapshot, conns, sent, tasks>>
  /\ \A t \in tasks : (Moved(t) /\ nEvents' # nEvents) => UNCHANGED <<server, conns>>
  /\ app' # app => \/ app = "loading" /\ app' = "running"
                   \/ app = "running" /\ app' = "quit" /\ tasks' = tasks

C19_NoEscape == []C19_Accepting /\ [][C19_Caught]_vars

C19_Witness ==
  /\ Throws /\ app = "running" /\ wss = "open"
  /\ \E c \in Clients :
       /\ readyState[c] = "OPEN" /\ Len(sent[c]) = 2
       /\ sent[c][1].error = UnsupportedError
       /\ sent[c][2].error = SyntaxErrorMessage

\* the last message client 1 got is the broadcast of a mutation, sent with the mixer
\* as that mutation left it
LastIsMutation ==
  /\ sent[1] # <<>>
  /\ sent[1][Len(sent[1])].src = "mutation"
  /\ sent[1][Len(sent[1])].clean

\* C20: a poll tick that runs after the broadcast of a client's mutation, the mixer
\* not written since that mutation, starts no broadcast (the snapshot having been set
\* by an earlier tick).
C20_SnapshotIsLastBroadcast ==
  [][\A t \in tasks :
       (/\ t.kind = "tick" /\ t.pc = "getMuted" /\ Moved(t)
        /\ lastVolume # Null
        /\ LastIsMutation
        /\ sent[1][Len(sent[1])].volume = t.volume
        /\ sent[1][Len(sent[1])].muted = bmute)
       => Spawned = {}]_vars

\* the last message client c got is a state message with the mixer's present values
SeesMixer(c) ==
  /\ sent[c] # <<>>
  /\ sent[c][Len(sent[c])].type = "state"
  /\ sent[c][Len(sent[c])].volume = bvol
  /\ sent[c][Len(sent[c])].muted = bmute

\* C21: with the poll loop running and every command working, after the knob or the
\* mute key changed the mixer, and for as long as the mixer is not written again, each
\* OPEN client eventually gets a state message carrying the mixer's new values.
C21_ChangeBroadcast ==
  \A c \in Clients : \A v \in 0..(LiveEvents + 1) :
    (bsrc = "knob" /\ bver = v /\ pollingTimer = "set" /\ ~Throws /\ readyState[c] = "OPEN")
    ~> (bver # v \/ readyState[c] # "OPEN" \/ SeesMixer(c))

\* no request, tick or broadcast is awaiting the backend, the poll loop runs, and its
\* latest comparison came from a tick that ran wholly after the last write to the mixer
Quiescent ==
  /\ pollingTimer = "set" /\ tasks = {}
  /\ pollLog # <<>>
  /\ pollLog[Len(pollLog)].from = bver /\ pollLog[Len(pollLog)].ok

StateIndexes(c) == {i \in Indexes(c) : sent[c][i].type = "state"}
LastStateIndex(c) == CHOOSE i \in StateIndexes(c) : \A j \in StateIndexes(c) : j <= i

\* C22: once the system is quiescent, the last state message each OPEN client got
\* (built from reads that worked) carries the mixer's present volume and mute.
C22_Converged ==
  Quiescent =>
    \A c \in Clients :
      (readyState[c] = "OPEN" /\ StateIndexes(c) # {} /\ sent[c][LastStateIndex(c)].ok)
      => /\ sent[c][LastStateIndex(c)].volume = bvol
         /\ sent[c][LastStateIndex(c)].muted = bmute

\* C23: when a client has sent setVolume(a) and then setVolume(b) on its connection
\* and both handlers have finished, with no other write to the mixer, the mixer's
\* volume is clamp(b, 0, 100).
C23_ArrivalOrder ==
  (Arrived(OrderSecond) /\ \A t \in tasks : t.kind # "handler")
  => bvol = ClampTo(OrderSecond)

\* C24: the (volume, muted) pair of every state message built from reads that worked
\* is a pair the mixer held at some instant.
C24_PairHeld ==
  \A c \in Clients : \A i \in Indexes(c) :
    (sent[c][i].type = "state" /\ sent[c][i].ok)
    => <<sent[c][i].volume, sent[c][i].muted>> \in held

\* C25: every ws.send the server calls is on a socket that is OPEN at that moment:
\* the one of sendState, called on its socket at the step that ends its last await,
\* the error replies of the message callback, and the sends of a broadcast.
C25_SendOnOpen ==
  [][/\ \A t \in tasks :
          (t.kind = "sendState" /\ t.pc = "getOutputDevice" /\ Moved(t))
          => readyState[t.ws] = "OPEN"
     /\ \A c \in Clients : \A raw \in RawMessages :
          OnMessage(c, raw) => \A d \in replyTo(c) : readyState[d] = "OPEN"
     /\ \A c \in Clients : sent'[c] # sent[c] => readyState[c] = "OPEN"]_vars

MuteActions == {"mute", "unmute", "toggleMute"}

C27_NoBroadcastAfterQuit ==
  [][app = "quit"
     => \A c \in Clients :
          Len(sent'[c]) > Len(sent[c]) => sent'[c][Len(sent'[c])].src # "poll"]_vars

====
